---- MODULE Spec2Model ----
(***************************************************************************)
(* Model of the solder reflow hot plate controller (main.cpp).             *)
(*                                                                         *)
(* The firmware is one cooperative loop() plus two encoder interrupt       *)
(* handlers.  loop() is modelled as a chain of steps (variable pc), one    *)
(* per group of statements between which an encoder interrupt can be       *)
(* observed; the interrupt handler is one atomic action that may fire      *)
(* between any two steps.  The last step of a tick, LoopRest, runs from    *)
(* updateDisplay to the end of loop() and on through the button poll of    *)
(* the next iteration: none of these statements reads or writes a variable *)
(* the interrupt handler writes, so an interrupt falling among them acts   *)
(* as one falling after them.  The state a LoopRest step leaves is the     *)
(* state at the end of a control tick.                                     *)
(*                                                                         *)
(* Numbers: temperatures are whole degrees C; the double-valued setpoint   *)
(* and initial-temperature snapshot are exact rationals [n, d] (d = 0      *)
(* stands for a non-finite double); PID constants are held in hundredths.  *)
(* Time is kept as millis() - time_now, the only way the code uses it.     *)
(***************************************************************************)
EXTENDS Integers, Sequences, FiniteSets, TLC

(***************************************************************************)
(* Bounds of the model                                                     *)
(***************************************************************************)
\* rotation events accepted while a parameter is selected for editing
MaxRotations == 1

\* loop() iterations explored in the specifications that bound them
MaxTicks == 8

\* button presses of the operator in the specifications that bound them
MaxPresses == 4

\* largest elapsedSeconds value for which the setpoint function is examined
\* past the end of the default profile
MaxSecond == 255

(***************************************************************************)
(* Program constants                                                       *)
(***************************************************************************)
SecondMs      == 1000      \* 1 second run timer
IdleRefreshMs == 10000     \* idle thermistor refresh timer
FaultTempC    == -20       \* readings below this are a failed thermistor
FailCountMax  == 3         \* fail counter threshold
PwmMax        == 255       \* PID output limit (PID_v1 default 0..255)
BootSetpoint  == 50        \* temporary setpoint written by setup()
SaveDelayMs   == 3130      \* 13 EEPROM delays of 10 ms + delay(3000)

\* duration of one loop() iteration in ms (thermistor sampling, display
\* refresh, 100 ms button debounce)
TickMs == {600}

\* built-in defaults of parametersReflow and parametersPID (x 100)
DefaultReflow == <<115, 100, 145, 155, 185, 180, 35>>
DefaultPID    == <<330, 2, 345, 330, 2, 345>>

(***************************************************************************)
(* Exact rational arithmetic standing for the double computations          *)
(***************************************************************************)
Abs(x) == IF x < 0 THEN -x ELSE x

Sign(x) == IF x < 0 THEN -1 ELSE IF x > 0 THEN 1 ELSE 0

RECURSIVE GCD(_, _)
GCD(a, b) == IF b = 0 THEN a ELSE GCD(b, a % b)

\* n/d in lowest terms with a positive denominator (d # 0)
Rat(n, d) ==
    LET g == GCD(Abs(n), Abs(d))
        s == IF d < 0 THEN -1 ELSE 1
    IN  [n |-> (s * n) \div g, d |-> (s * d) \div g]

RInt(k) == [n |-> k, d |-> 1]

\* d = 0: n = 1 is +inf, n = -1 is -inf, n = 0 is NaN
RNaN == [n |-> 0, d |-> 0]

RInf(s) == [n |-> s, d |-> 0]

RAdd(a, b) ==
    IF a.d # 0 /\ b.d # 0 THEN Rat(a.n * b.d + b.n * a.d, a.d * b.d)
    ELSE IF (a.d = 0 /\ a.n = 0) \/ (b.d = 0 /\ b.n = 0) THEN RNaN
    ELSE IF a.d = 0 /\ b.d = 0 THEN (IF a.n = b.n THEN a ELSE RNaN)
    ELSE IF a.d = 0 THEN a ELSE b

RNeg(a) == [n |-> -a.n, d |-> a.d]

RSub(a, b) == RAdd(a, RNeg(b))

RMul(a, b) ==
    IF a.d # 0 /\ b.d # 0 THEN Rat(a.n * b.n, a.d * b.d)
    ELSE IF a.n = 0 \/ b.n = 0 THEN RNaN
    ELSE RInf(Sign(a.n) * Sign(b.n))

RDiv(a, b) ==
    IF a.d # 0 /\ b.d # 0
    THEN (IF b.n # 0 THEN Rat(a.n * b.d, a.d * b.n)
          ELSE IF a.n = 0 THEN RNaN ELSE RInf(Sign(a.n)))
    ELSE IF a.d = 0 /\ b.d = 0 THEN RNaN
    ELSE IF a.d = 0
    THEN (IF a.n = 0 THEN RNaN
          ELSE RInf(a.n * (IF b.n < 0 THEN -1 ELSE 1)))
    ELSE (IF b.n = 0 THEN RNaN ELSE RInt(0))

(***************************************************************************)
(* State                                                                   *)
(***************************************************************************)
VARIABLES
    pc,                   \* position of loop()
    encSW,                \* button level sampled by this tick
    menuCounter,          \* volatile, written by the encoder interrupt
    selectCounter,        \* volatile, written by the encoder interrupt
    menuIndex,
    selectIndexMax,
    selectFlag,
    startConfirm,
    swCase,               \* case taken by the switch of updateCursorPosition
    running,
    runningBuffer,
    runningMode,          \* 0 = constant temperature, 1 = reflow profile
    runningState,         \* 1 RAMP, 2 SOAK, 3 REFLOW RAMP, 4 REFLOW, 5 COOLING
    runningSecondCounter,
    initTempSnapshot,
    pid_Setpoint,
    pid1_Mode, pid2_Mode, \* mode of hotPlate1PID / hotPlate2PID
    pid1_Input, pid2_Input,
    pid1_Output, pid2_Output,
    pwm1, pwm2,           \* duty cycle last written to pwmPin1 / pwmPin2
    steinhart1, steinhart2,
    thermistor1Buffer, thermistor2Buffer,
    thermistor1Fail, thermistor2Fail,
    sinceTimer,           \* millis() - time_now when the timers were last tested
    wrkInt, wrkDouble,
    parametersReflow,
    parametersPID,
    constTempSP,
    eeprom,               \* EEPROM cells 1..19
    evalState,            \* phase found by the switch of reflowRunning this tick
    preArm,               \* the run session and outputs as they were when the
                          \* start dialog was armed, <<>> outside that dialog
    rotations,            \* rotation events consumed in edit mode (bounded)
    ticks,                \* loop() iterations completed (counted only when bounded)
    presses,              \* ticks that saw the button down (counted only when bounded)
    env                   \* what the sensors, the uninitialised locals, the clock
                          \* and the operator can deliver in this run of the model

vars == <<pc, encSW, menuCounter, selectCounter, menuIndex, selectIndexMax,
          selectFlag, startConfirm, swCase, running, runningBuffer,
          runningMode, runningState, runningSecondCounter, initTempSnapshot,
          pid_Setpoint, pid1_Mode, pid2_Mode, pid1_Input, pid2_Input,
          pid1_Output, pid2_Output, pwm1, pwm2, steinhart1, steinhart2, thermistor1Buffer,
          thermistor2Buffer, thermistor1Fail, thermistor2Fail, sinceTimer,
          wrkInt, wrkDouble, parametersReflow, parametersPID, constTempSP,
          eeprom, evalState, preArm, rotations, ticks, presses, env>>

menuVars == <<menuIndex, selectIndexMax, selectFlag, startConfirm, swCase,
              preArm>>

runVars == <<running, runningBuffer, runningMode, runningState,
             runningSecondCounter, initTempSnapshot, evalState>>

pidVars == <<pid_Setpoint, pid1_Mode, pid2_Mode, pid1_Input, pid2_Input,
             pid1_Output, pid2_Output, pwm1, pwm2>>

sensorVars == <<steinhart1, steinhart2, thermistor1Buffer, thermistor2Buffer,
                thermistor1Fail, thermistor2Fail>>

paramVars == <<wrkInt, wrkDouble, parametersReflow, parametersPID,
               constTempSP, eeprom>>

(***************************************************************************)
(* EEPROM layout: cells 1..7 hold the reflow bytes, cells 8..19 the six    *)
(* PID words (value x 100, 16 bit, high byte first)                        *)
(***************************************************************************)
ReflowAddr(i) == 1 + (i - 1)

PidAddr(i) == 8 + 2 * (i - 1)

\* value of a 16-bit two's complement int holding v
ToInt16(v) == LET u == v % 65536 IN IF u >= 32768 THEN u - 65536 ELSE u

\* writeUInt8TArrayIntoEEPROM(1, parametersReflow, 7)
writeUInt8TArrayIntoEEPROM(mem, numbers) ==
    [a \in DOMAIN mem |->
        IF a >= ReflowAddr(1) /\ a <= ReflowAddr(7)
        THEN numbers[a - ReflowAddr(1) + 1] ELSE mem[a]]

\* writeIntArrayIntoEEPROM(8, parametersPIDint, 6): numbers[i] >> 8, numbers[i] & 0xFF
writeIntArrayIntoEEPROM(mem, numbers) ==
    [a \in DOMAIN mem |->
        IF a >= PidAddr(1) /\ a <= PidAddr(6) + 1
        THEN LET i == ((a - PidAddr(1)) \div 2) + 1
                 u == ToInt16(numbers[i]) % 65536
             IN  IF (a - PidAddr(1)) % 2 = 0 THEN u \div 256 ELSE u % 256
        ELSE mem[a]]

\* readUInt8TArrayFromEEPROM(1, parametersReflowREAD, 7)
readUInt8TArrayFromEEPROM(mem) == [i \in 1..7 |-> mem[ReflowAddr(i)]]

\* readIntArrayFromEEPROM(8, parametersPIDREAD, 6): (hi << 8) + lo in a 16-bit int
readIntArrayFromEEPROM(mem) ==
    [i \in 1..6 |-> ToInt16(mem[PidAddr(i)] * 256 + mem[PidAddr(i) + 1])]

\* "parametersPIDint[i] = parametersPID[i] * 100": the product of the binary
\* floating-point value and 100 is truncated towards zero, so a value of k
\* hundredths is stored as k or, when the product falls just short of k, as
\* one hundredth nearer zero (t); a product outside the range of int has no
\* defined conversion: the build either keeps the low 16 bits or saturates
DoubleToInt(k, t, wraps) ==
    LET v == IF k > 0 THEN k - t ELSE IF k < 0 THEN k + t ELSE 0
    IN  IF v >= -32768 /\ v <= 32767 THEN v
        ELSE IF wraps THEN ToInt16(v)
        ELSE IF v > 0 THEN 32767 ELSE -32768

\* the arrays parametersPIDint can hold after the conversion loop of case 5
\* (equal constants convert alike)
parametersPIDint(pid, truncs) ==
    { [i \in 1..6 |-> DoubleToInt(pid[i], ts[pid[i]], wraps)] :
        ts \in [{pid[i] : i \in 1..6} -> truncs], wraps \in BOOLEAN }

\* case 5 of updateCursorPosition: the image of the store after a save of
\* the profile bytes and of the converted tuning words
SaveConfiguration(mem, reflow, words) ==
    writeIntArrayIntoEEPROM(writeUInt8TArrayIntoEEPROM(mem, reflow), words)

\* a store on which the given configuration was saved
StoreImage(reflow, pid) ==
    SaveConfiguration([a \in 1..19 |-> 255], reflow, pid)

(***************************************************************************)
(* readThermistor                                                          *)
(***************************************************************************)
\* thermistorNFailCounter is an uninitialised local: g is the value it
\* happens to hold, inc whether "c = c++" leaves c incremented.  The
\* condition "thermistorNBuffer = steinhartN" is an assignment: it is true
\* iff the new reading is non-zero.
FailFlag(s, g, inc) ==
    LET cnt == IF s # 0 THEN (g + inc) % 256 ELSE 0
    IN  s < FaultTempC \/ cnt >= FailCountMax

\* the outcomes of one call of readThermistor(): the converted readings,
\* the buffers (overwritten by the assignment in the condition) and flags
readThermistor(e) ==
    { [s1 |-> t1, s2 |-> t2, b1 |-> t1, b2 |-> t2,
       f1 |-> FailFlag(t1, g1, i1), f2 |-> FailFlag(t2, g2, i2)] :
         t1 \in e.temps1, t2 \in e.temps2, g1 \in e.uninit, g2 \in e.uninit,
         i1 \in {0, 1}, i2 \in {0, 1} }

SensorsAre(r) ==
    /\ steinhart1' = r.s1
    /\ steinhart2' = r.s2
    /\ thermistor1Buffer' = r.b1
    /\ thermistor2Buffer' = r.b2
    /\ thermistor1Fail' = r.f1
    /\ thermistor2Fail' = r.f2

(***************************************************************************)
(* State after setup()                                                     *)
(***************************************************************************)
InitFrom(envs, images) ==
    /\ env \in envs
    /\ eeprom \in images
    /\ parametersReflow = readUInt8TArrayFromEEPROM(eeprom)
    /\ parametersPID = readIntArrayFromEEPROM(eeprom)
    /\ constTempSP = 35
    /\ wrkInt = 0
    /\ wrkDouble = 0
    /\ pc = "cursor"
    /\ encSW \in (IF env.maxPress = 0 THEN BOOLEAN ELSE {FALSE})
    /\ menuCounter = 1
    /\ selectCounter = 0
    /\ menuIndex = 0
    /\ selectIndexMax = 1
    /\ selectFlag = FALSE
    /\ startConfirm = FALSE
    /\ swCase = 0
    /\ preArm = <<>>
    /\ running = FALSE
    /\ runningBuffer = FALSE
    /\ runningMode = 0
    /\ runningState = 0
    /\ runningSecondCounter = 0
    /\ initTempSnapshot = RInt(25)
    /\ evalState = 0
    /\ pid_Setpoint = RInt(BootSetpoint)
    /\ pid1_Mode = "MANUAL"
    /\ pid2_Mode = "MANUAL"
    /\ pid1_Input = 0
    /\ pid2_Input = 0
    /\ pid1_Output = 0
    /\ pid2_Output = 0
    /\ pwm1 = 0
    /\ pwm2 = 0
    /\ \E r \in readThermistor(env) :
          /\ steinhart1 = r.s1
          /\ steinhart2 = r.s2
          /\ thermistor1Buffer = r.b1
          /\ thermistor2Buffer = r.b2
          /\ thermistor1Fail = r.f1
          /\ thermistor2Fail = r.f2
    /\ sinceTimer = 0
    /\ rotations = 0
    /\ ticks = 0
    /\ presses = 0

(***************************************************************************)
(* Encoder interrupt (isrEncCLK and isrEncDT have the same body; dir is    *)
(* the rotation sense decoded from the two pins)                           *)
(***************************************************************************)
isrEnc ==
    /\ \E dir \in {1, -1} :
         LET tempCounter == dir IN
         IF selectFlag
         THEN /\ rotations < env.maxRot
              /\ dir \in env.editDirs
              /\ selectCounter' = ToInt16(selectCounter + tempCounter)
              /\ rotations' = rotations + 1
              /\ UNCHANGED menuCounter
         ELSE /\ menuCounter' =
                   IF tempCounter > 0 /\ menuCounter < selectIndexMax
                   THEN menuCounter + 1
                   ELSE IF tempCounter < 0 /\ menuCounter > 1
                   THEN menuCounter - 1
                   ELSE menuCounter
              /\ UNCHANGED <<selectCounter, rotations>>
    /\ UNCHANGED <<pc, encSW, menuVars, runVars, pidVars, sensorVars,
                   sinceTimer, paramVars, ticks, presses, env>>

(***************************************************************************)
(* calcParameters                                                          *)
(***************************************************************************)
U8(x) == x % 256

\* a read outside an array returns whatever byte lies there
OutOfBoundsBytes == {0, 255}

\* the working value computed from the stored parameter and the pending delta
CalcRead ==
    /\ pc = "calc"
    /\ IF menuIndex = 3
       THEN /\ IF menuCounter \in 1..7
               THEN wrkInt' = U8(selectCounter + parametersReflow[menuCounter])
               ELSE wrkInt' \in {U8(selectCounter + b) : b \in OutOfBoundsBytes}
            /\ UNCHANGED wrkDouble
       ELSE IF menuIndex = 4
       THEN /\ LET base == IF menuCounter \in 1..6
                           THEN {parametersPID[menuCounter]}
                           ELSE OutOfBoundsBytes
               IN  \E b \in base :
                     wrkDouble' = IF selectCounter + b < 0 THEN 0
                                  ELSE selectCounter + b
            /\ UNCHANGED wrkInt
       ELSE IF menuIndex = 98
       THEN /\ wrkInt' = U8(selectCounter + constTempSP)
            /\ UNCHANGED wrkDouble
       ELSE UNCHANGED <<wrkInt, wrkDouble>>
    /\ pc' = IF encSW /\ menuIndex \in {3, 4, 98} THEN "commit" ELSE "cursor"
    /\ UNCHANGED <<encSW, menuCounter, selectCounter, menuVars, runVars,
                   pidVars, sensorVars, sinceTimer, parametersReflow,
                   parametersPID, constTempSP, eeprom, rotations, ticks, presses, env>>

\* what "parametersPID[menuCounter - 1] = wrkDouble" can leave in
\* parametersReflow when the index is past the end of parametersPID: the
\* four bytes land on whatever object the linker placed behind the array,
\* either an object the program never reads again or the first four bytes
\* of parametersReflow (strays: the bytes that can land there)
OutOfBoundsWrite(reflow, strays) ==
    {reflow} \cup
    { [i \in 1..7 |-> IF i <= 4 THEN b ELSE reflow[i]] : b \in strays }

\* the "if (encSW)" block: store the working value, clear the delta.  The
\* byte behind parametersReflow, hit by "parametersReflow[7] = wrkInt", is
\* the low mantissa byte of a double or a byte of no later use: it does not
\* change a value of this model.
CalcCommit ==
    /\ pc = "commit"
    /\ IF menuIndex = 3 /\ menuCounter \in 1..7
       THEN parametersReflow' = [parametersReflow EXCEPT ![menuCounter] = wrkInt]
       ELSE IF menuIndex = 4 /\ menuCounter \notin 1..6
       THEN parametersReflow' \in OutOfBoundsWrite(parametersReflow, env.strays)
       ELSE parametersReflow' = parametersReflow
    /\ parametersPID' =
          IF menuIndex = 4 /\ menuCounter \in 1..6
          THEN [parametersPID EXCEPT ![menuCounter] = wrkDouble]
          ELSE parametersPID
    /\ constTempSP' = IF menuIndex = 98 THEN wrkInt ELSE constTempSP
    /\ selectCounter' = 0
    /\ wrkInt' = 0
    /\ wrkDouble' = 0
    /\ pc' = "cursor"
    /\ UNCHANGED <<encSW, menuCounter, menuVars, runVars, pidVars,
                   sensorVars, sinceTimer, eeprom, rotations, ticks, presses, env>>

(***************************************************************************)
(* updateCursorPosition.  menuCounter is volatile: where the code reads it *)
(* a second time after a branch was decided (case 1, 2, 3, 4, 98) the      *)
(* second read is a step of its own (pc = "cursor2"), so an interrupt can  *)
(* fall between the two reads.  The cursor coordinates are display only.   *)
(***************************************************************************)
TimerCap == IdleRefreshMs + 1

\* millis() - time_now after d more ms (values above the cap act alike)
AddMs(t, d) == IF t + d > TimerCap THEN TimerCap ELSE t + d

\* no button press, or a screen without a handler: nothing to do
CursorNoPress ==
    /\ pc = "cursor"
    /\ menuIndex # 5
    /\ ~encSW \/ menuIndex \notin {0, 1, 2, 3, 4, 98, 99}
    /\ pc' = "rest"
    /\ UNCHANGED <<encSW, menuCounter, selectCounter, menuVars, runVars,
                   pidVars, sensorVars, sinceTimer, paramVars, rotations, ticks, presses, env>>

\* the run session fields and the actuator outputs
RunSessionNow ==
    [mode |-> runningMode, phase |-> runningState,
     sec |-> runningSecondCounter, snap |-> initTempSnapshot,
     sp |-> pid_Setpoint, out1 |-> pwm1, out2 |-> pwm2]

\* faulty variant of CursorMainMenu: a start entry starts the run at once
CursorMainMenuStartsAtOnce ==
    /\ pc = "cursor" /\ menuIndex = 0 /\ encSW
    /\ IF menuCounter = 1
       THEN runningMode' = 1 /\ running' = TRUE /\ menuIndex' = 99
       ELSE IF menuCounter = 2
       THEN runningMode' = 0 /\ running' = TRUE /\ menuIndex' = 98
       ELSE IF menuCounter = 3
       THEN menuIndex' = 2 /\ UNCHANGED <<runningMode, running>>
       ELSE UNCHANGED <<runningMode, running, menuIndex>>
    /\ menuCounter' = 1
    /\ pc' = "rest"
    /\ UNCHANGED <<encSW, selectCounter, selectIndexMax, selectFlag, swCase,
                   startConfirm, preArm, runningBuffer, runningState,
                   runningSecondCounter, initTempSnapshot, evalState, pidVars,
                   sensorVars, sinceTimer, paramVars, rotations, ticks,
                   presses, env>>

\* case 0: MAIN MENU
CursorMainMenu ==
    /\ pc = "cursor" /\ menuIndex = 0 /\ encSW
    /\ IF menuCounter = 1
       THEN runningMode' = 1 /\ startConfirm' = TRUE /\ menuIndex' = 1
       ELSE IF menuCounter = 2
       THEN runningMode' = 0 /\ startConfirm' = TRUE /\ menuIndex' = 1
       ELSE IF menuCounter = 3
       THEN menuIndex' = 2 /\ UNCHANGED <<runningMode, startConfirm>>
       ELSE UNCHANGED <<runningMode, startConfirm, menuIndex>>
    /\ menuCounter' = 1
    /\ preArm' = IF menuCounter \in {1, 2} THEN <<RunSessionNow>> ELSE preArm
    /\ pc' = "rest"
    /\ UNCHANGED <<encSW, selectCounter, selectIndexMax, selectFlag, swCase,
                   running, runningBuffer, runningState, runningSecondCounter,
                   initTempSnapshot, evalState, pidVars, sensorVars,
                   sinceTimer, paramVars, rotations, ticks, presses, env>>

\* the running screen of a mode
RunningScreen(mode) == IF mode = 1 THEN 99 ELSE 98

\* faulty variant of CursorConfirmNo: declining a start clears the second
\* counter and phase of the last run
CursorConfirmNoClearsSession ==
    /\ pc = "cursor" /\ menuIndex = 1 /\ encSW
    /\ IF menuCounter = 1
       THEN IF startConfirm
            THEN /\ running' = FALSE
                 /\ menuIndex' = 0
                 /\ menuCounter' = 1
                 /\ startConfirm' = FALSE
                 /\ runningState' = 0
                 /\ runningSecondCounter' = 0
            ELSE /\ running' = TRUE
                 /\ menuIndex' = RunningScreen(runningMode)
                 /\ menuCounter' = 1
                 /\ UNCHANGED <<startConfirm, runningState,
                                runningSecondCounter>>
       ELSE UNCHANGED <<running, menuIndex, menuCounter, startConfirm,
                        runningState, runningSecondCounter>>
    /\ swCase' = 1
    /\ pc' = "cursor2"
    /\ UNCHANGED <<encSW, selectCounter, selectIndexMax, selectFlag, preArm,
                   runningBuffer, runningMode, initTempSnapshot, evalState,
                   pidVars, sensorVars, sinceTimer, paramVars, rotations,
                   ticks, presses, env>>

\* case 1: CONFIRM DIALOG, first "if (menuCounter == 1)": the NO selection
CursorConfirmNo ==
    /\ pc = "cursor" /\ menuIndex = 1 /\ encSW
    /\ IF menuCounter = 1
       THEN IF startConfirm
            THEN /\ running' = FALSE
                 /\ menuIndex' = 0
                 /\ menuCounter' = 1
                 /\ startConfirm' = FALSE
            ELSE /\ running' = TRUE
                 /\ menuIndex' = RunningScreen(runningMode)
                 /\ menuCounter' = 1
                 /\ UNCHANGED startConfirm
       ELSE UNCHANGED <<running, menuIndex, menuCounter, startConfirm>>
    /\ swCase' = 1
    /\ pc' = "cursor2"
    /\ UNCHANGED <<encSW, selectCounter, selectIndexMax, selectFlag, preArm,
                   runningBuffer, runningMode, runningState,
                   runningSecondCounter, initTempSnapshot, evalState, pidVars,
                   sensorVars, sinceTimer, paramVars, rotations, ticks, presses, env>>

\* case 1: CONFIRM DIALOG, second "if (menuCounter == 2)": the YES selection
CursorConfirmYes ==
    /\ pc = "cursor2" /\ swCase = 1
    /\ IF menuCounter = 2
       THEN IF startConfirm
            THEN /\ running' = TRUE
                 /\ menuIndex' = RunningScreen(runningMode)
                 /\ menuCounter' = 1
                 /\ startConfirm' = FALSE
            ELSE /\ running' = FALSE
                 /\ menuIndex' = 0
                 /\ menuCounter' = 1
                 /\ UNCHANGED startConfirm
       ELSE UNCHANGED <<running, menuIndex, menuCounter, startConfirm>>
    /\ swCase' = 0
    /\ preArm' = IF menuIndex' = 1 /\ startConfirm' THEN preArm ELSE <<>>
    /\ pc' = "rest"
    /\ UNCHANGED <<encSW, selectCounter, selectIndexMax, selectFlag,
                   runningBuffer, runningMode, runningState,
                   runningSecondCounter, initTempSnapshot, evalState, pidVars,
                   sensorVars, sinceTimer, paramVars, rotations, ticks, presses, env>>

\* the position of the Back entry of a list screen, the stop entry of screen 98
BackPosition(menu) ==
    IF menu = 2 THEN 4 ELSE IF menu = 3 THEN 8 ELSE IF menu = 4 THEN 7 ELSE 2

\* cases 2, 3, 4, 98: the test of menuCounter against Back (or STOP)
CursorBackTest ==
    /\ pc = "cursor" /\ menuIndex \in {2, 3, 4, 98} /\ encSW
    /\ IF menuCounter = BackPosition(menuIndex)
       THEN /\ menuIndex' = IF menuIndex = 2 THEN 0
                            ELSE IF menuIndex = 98 THEN 1 ELSE 2
            /\ startConfirm' = IF menuIndex = 98 THEN FALSE ELSE startConfirm
            /\ menuCounter' = 1
            /\ pc' = "rest"
            /\ UNCHANGED swCase
       ELSE /\ swCase' = menuIndex
            /\ pc' = "cursor2"
            /\ UNCHANGED <<menuIndex, startConfirm, menuCounter>>
    /\ UNCHANGED <<encSW, selectCounter, selectIndexMax, selectFlag, preArm,
                   runVars,
                   pidVars, sensorVars, sinceTimer, paramVars, rotations, ticks, presses, env>>

\* case 2, else branch: menuIndex = menuCounter + 2 (second read of menuCounter)
CursorConfigSelect ==
    /\ pc = "cursor2" /\ swCase = 2
    /\ menuIndex' = U8(menuCounter + 2)
    /\ menuCounter' = 1
    /\ swCase' = 0
    /\ pc' = "rest"
    /\ UNCHANGED <<encSW, selectCounter, selectIndexMax, selectFlag,
                   startConfirm, preArm, runVars, pidVars, sensorVars,
                   sinceTimer, paramVars, rotations, ticks, presses, env>>

\* cases 3, 4, 98, else branch: selectFlag = !selectFlag
CursorToggleSelect ==
    /\ pc = "cursor2" /\ swCase \in {3, 4, 98}
    /\ selectFlag' = ~selectFlag
    /\ swCase' = 0
    /\ pc' = "rest"
    /\ UNCHANGED <<encSW, menuCounter, selectCounter, menuIndex,
                   selectIndexMax, startConfirm, preArm, runVars, pidVars,
                   sensorVars, sinceTimer, paramVars, rotations, ticks,
                   presses, env>>

\* case 5: Save Configuration (runs on entry, without a button press)
CursorSave ==
    /\ pc = "cursor" /\ menuIndex = 5
    /\ \E words \in parametersPIDint(parametersPID, env.truncs) :
          eeprom' = SaveConfiguration(eeprom, parametersReflow, words)
    /\ sinceTimer' = AddMs(sinceTimer, SaveDelayMs)
    /\ menuIndex' = 2
    /\ menuCounter' = 1
    /\ pc' = "rest"
    /\ UNCHANGED <<encSW, selectCounter, selectIndexMax, selectFlag,
                   startConfirm, swCase, preArm, runVars, pidVars, sensorVars,
                   wrkInt,
                   wrkDouble, parametersReflow, parametersPID, constTempSP,
                   rotations, ticks, presses, env>>

\* faulty variant of CursorReflowStop: the button leads to the main menu and
\* the run goes on
CursorReflowStopToMainMenu ==
    /\ pc = "cursor" /\ menuIndex = 99 /\ encSW
    /\ startConfirm' = FALSE
    /\ menuIndex' = 0
    /\ menuCounter' = 1
    /\ pc' = "rest"
    /\ UNCHANGED <<encSW, selectCounter, selectIndexMax, selectFlag, swCase,
                   preArm, runVars, pidVars, sensorVars, sinceTimer, paramVars,
                   rotations, ticks, presses, env>>

\* case 99: Running - Reflow Profile Mode: the button opens the stop dialog
CursorReflowStop ==
    /\ pc = "cursor" /\ menuIndex = 99 /\ encSW
    /\ startConfirm' = FALSE
    /\ menuIndex' = 1
    /\ menuCounter' = 1
    /\ pc' = "rest"
    /\ UNCHANGED <<encSW, selectCounter, selectIndexMax, selectFlag, swCase,
                   preArm, runVars, pidVars, sensorVars, sinceTimer, paramVars,
                   rotations, ticks, presses, env>>

(***************************************************************************)
(* updateDisplay: its only effect on the control state is selectIndexMax,  *)
(* which is not refreshed while a thermistor failure message is shown      *)
(***************************************************************************)
IndexMaxOf(menu, old) ==
    IF menu = 0 THEN 3
    ELSE IF menu = 1 THEN 2
    ELSE IF menu = 2 THEN 4
    ELSE IF menu = 3 THEN 8
    ELSE IF menu = 4 THEN 7
    ELSE IF menu = 98 THEN 2
    ELSE IF menu = 99 THEN 1
    ELSE old

\* selectIndexMax after updateDisplay
updateDisplay(menu, old, fail1, fail2) ==
    IF ~fail1 /\ ~fail2 THEN IndexMaxOf(menu, old) ELSE old

(***************************************************************************)
(* Reflow profile state machine (switch of reflowRunning)                  *)
(***************************************************************************)
\* faulty variant of ReflowSetpoint: the ramp starts from 0 C instead of the
\* initial-temperature snapshot
ReflowSetpointFromZero(st, p, snap, sec, old) ==
    IF st = 1
    THEN RMul(RDiv(RInt(p[1]), RInt(p[2])), RInt(sec))
    ELSE IF st = 2
    THEN RAdd(RMul(RDiv(RSub(RInt(p[3]), RInt(p[1])),
                        RSub(RInt(p[4]), RInt(p[2]))),
                   RSub(RInt(sec), RInt(p[2]))), RInt(p[1]))
    ELSE IF st = 3
    THEN RAdd(RMul(RDiv(RSub(RInt(p[5]), RInt(p[3])),
                        RSub(RInt(p[6]), RInt(p[4]))),
                   RSub(RInt(sec), RInt(p[4]))), RInt(p[3]))
    ELSE IF st = 4 THEN RInt(p[5])
    ELSE IF st = 5 THEN RInt(0)
    ELSE old

\* pid_Setpoint computed by the case of phase st at second sec; p is
\* parametersReflow (T1, t1, T2, t2, T3, t3, hold), snap initTempSnapshot
ReflowSetpoint(st, p, snap, sec, old) ==
    IF st = 1
    THEN RAdd(RMul(RSub(RDiv(RSub(RInt(p[1]), snap), RInt(p[2])), RInt(0)),
                   RInt(sec)), snap)
    ELSE IF st = 2
    THEN RAdd(RMul(RDiv(RSub(RInt(p[3]), RInt(p[1])),
                        RSub(RInt(p[4]), RInt(p[2]))),
                   RSub(RInt(sec), RInt(p[2]))), RInt(p[1]))
    ELSE IF st = 3
    THEN RAdd(RMul(RDiv(RSub(RInt(p[5]), RInt(p[3])),
                        RSub(RInt(p[6]), RInt(p[4]))),
                   RSub(RInt(sec), RInt(p[4]))), RInt(p[3]))
    ELSE IF st = 4 THEN RInt(p[5])
    ELSE IF st = 5 THEN RInt(0)
    ELSE old

\* faulty variant of PhaseBoundary: t3 + hold computed in 8 bits
PhaseBoundary8Bit(st, p) ==
    IF st = 1 THEN p[2]
    ELSE IF st = 2 THEN p[4]
    ELSE IF st = 3 THEN p[6]
    ELSE (p[6] + p[7]) % 256

\* the second at which phase st is left (int arithmetic: t3 + hold is not
\* reduced to 8 bits)
PhaseBoundary(st, p) ==
    IF st = 1 THEN p[2]
    ELSE IF st = 2 THEN p[4]
    ELSE IF st = 3 THEN p[6]
    ELSE p[6] + p[7]

\* faulty variant of ReflowNextState: SOAK is skipped
ReflowNextStateSkipsSoak(st, p, sec) ==
    IF st \in 1..4 /\ sec >= PhaseBoundary(st, p)
    THEN (IF st = 1 THEN 3 ELSE st + 1)
    ELSE st

\* runningState after the case of phase st ran at second sec
ReflowNextState(st, p, sec) ==
    IF st \in 1..4 /\ sec >= PhaseBoundary(st, p) THEN st + 1 ELSE st

\* faulty variant of SecondElapsed: the timer also runs in COOLING
SecondElapsedInAnyPhase(st, el) == el > SecondMs

\* faulty variant of SecondElapsed: the counter advances in every tick
SecondElapsedEveryTick(st, el) == st < 5

\* the 1 second timer of reflowRunning fires
SecondElapsed(st, el) == st < 5 /\ el > SecondMs

\* the gains (x 100) hotPlate1PID and hotPlate2PID compute with: the
\* constructors take them by value from the initialisers of parametersPID,
\* and the program never calls SetTunings
hotPlatePIDTunings == DefaultPID

(***************************************************************************)
(* PID library objects: Compute() leaves the output alone in MANUAL; in    *)
(* AUTOMATIC it yields some duty cycle within the output limits            *)
(***************************************************************************)
DutyVals == env.duties

\* faulty variant of pidLoopInput: the loop computes from the reading that
\* was current before this tick's acquisition
pidLoopInputCached(reading, cached) == cached

\* pidLoop1 / pidLoop2: pidN_Input = steinhartN, read after readThermistor()
\* of the same call of reflowRunning / constTempRunning (reading); cached is
\* the value steinhartN had when the tick began
pidLoopInput(reading, cached) == reading

\* faulty variant of Compute: the algorithm runs in MANUAL mode too
ComputeInAnyMode(mode, out, duty) == duty

\* pidN_Output after Compute(): out is the value before, duty what the
\* algorithm yields when it runs
Compute(mode, out, duty) == IF mode = "AUTOMATIC" THEN duty ELSE out

(***************************************************************************)
(* loop(), lines 1072-1104: run initialisation, idle forcing, running      *)
(* routines reflowRunning / constTempRunning                               *)
(***************************************************************************)
\* faulty variant of IdleTick: the actuators are not written
IdleTickKeepsDuty(el, r) ==
    /\ pid_Setpoint' = RInt(0)
    /\ pid1_Mode' = "MANUAL"
    /\ pid2_Mode' = "MANUAL"
    /\ pid1_Output' = 0
    /\ pid2_Output' = 0
    /\ UNCHANGED <<pwm1, pwm2>>
    /\ IF el > IdleRefreshMs
       THEN sinceTimer' = 0 /\ SensorsAre(r)
       ELSE sinceTimer' = el /\ UNCHANGED sensorVars
    /\ initTempSnapshot' = RInt(0)
    /\ UNCHANGED <<pid1_Input, pid2_Input>>
    /\ evalState' = 0
    /\ UNCHANGED <<runningState, runningSecondCounter>>

\* faulty variant of IdleTick: the setpoint is not forced to 0
IdleTickKeepsSetpoint(el, r) ==
    /\ pid_Setpoint' = pid_Setpoint
    /\ pid1_Mode' = "MANUAL"
    /\ pid2_Mode' = "MANUAL"
    /\ pid1_Output' = 0
    /\ pid2_Output' = 0
    /\ pwm1' = 0
    /\ pwm2' = 0
    /\ IF el > IdleRefreshMs
       THEN sinceTimer' = 0 /\ SensorsAre(r)
       ELSE sinceTimer' = el /\ UNCHANGED sensorVars
    /\ initTempSnapshot' = RInt(0)
    /\ UNCHANGED <<pid1_Input, pid2_Input>>
    /\ evalState' = 0
    /\ UNCHANGED <<runningState, runningSecondCounter>>

\* lines 1081-1097: not running
IdleTick(el, r) ==
    /\ pid_Setpoint' = RInt(0)
    /\ pid1_Mode' = "MANUAL"
    /\ pid2_Mode' = "MANUAL"
    /\ pid1_Output' = 0
    /\ pid2_Output' = 0
    /\ pwm1' = 0
    /\ pwm2' = 0
    /\ IF el > IdleRefreshMs
       THEN sinceTimer' = 0 /\ SensorsAre(r)
       ELSE sinceTimer' = el /\ UNCHANGED sensorVars
    /\ initTempSnapshot' = RInt(0)
    /\ UNCHANGED <<pid1_Input, pid2_Input>>
    /\ evalState' = 0
    /\ UNCHANGED <<runningState, runningSecondCounter>>

\* reflowRunning, entered with phase st, second counter sec, snapshot snap
reflowRunning(el, r, st, sec, snap, d1, d2) ==
    LET sec1 == IF SecondElapsed(st, el) THEN sec + 1 ELSE sec
        m1   == IF st = 5 THEN "MANUAL" ELSE "AUTOMATIC"
        m2   == IF st = 5 THEN "MANUAL" ELSE "AUTOMATIC"
        out1 == IF st = 5 THEN 0 ELSE pid1_Output
        out2 == IF st = 5 THEN 0 ELSE pid2_Output
        o1   == Compute(m1, out1, d1)
        o2   == Compute(m2, out2, d2)
    IN  /\ SensorsAre(r)
        /\ sinceTimer' = IF SecondElapsed(st, el) THEN 0 ELSE el
        /\ runningSecondCounter' = sec1
        /\ pid_Setpoint' =
              ReflowSetpoint(st, parametersReflow, snap, sec1, pid_Setpoint)
        /\ runningState' = ReflowNextState(st, parametersReflow, sec1)
        /\ evalState' = st
        /\ initTempSnapshot' = snap
        /\ pid1_Mode' = m1
        /\ pid2_Mode' = m2
        /\ pid1_Input' = pidLoopInput(r.s1, steinhart1)
        /\ pid2_Input' = pidLoopInput(r.s2, steinhart2)
        /\ pid1_Output' = o1
        /\ pid2_Output' = o2
        /\ pwm1' = o1
        /\ pwm2' = o2

\* faulty variant of constTempRunning: the setpoint is left as it was
constTempRunningKeepsSetpoint(el, r, st, sec, snap, d1, d2) ==
    /\ SensorsAre(r)
    /\ pid_Setpoint' = pid_Setpoint
    /\ pid1_Mode' = "AUTOMATIC"
    /\ pid2_Mode' = "AUTOMATIC"
    /\ sinceTimer' = IF el > SecondMs THEN 0 ELSE el
    /\ pid1_Input' = pidLoopInput(r.s1, steinhart1)
    /\ pid2_Input' = pidLoopInput(r.s2, steinhart2)
    /\ pid1_Output' = Compute("AUTOMATIC", pid1_Output, d1)
    /\ pid2_Output' = Compute("AUTOMATIC", pid2_Output, d2)
    /\ pwm1' = pid1_Output'
    /\ pwm2' = pid2_Output'
    /\ runningState' = st
    /\ runningSecondCounter' = sec
    /\ initTempSnapshot' = snap
    /\ evalState' = 0

\* constTempRunning
constTempRunning(el, r, st, sec, snap, d1, d2) ==
    /\ SensorsAre(r)
    /\ pid_Setpoint' = RInt(constTempSP)
    /\ pid1_Mode' = "AUTOMATIC"
    /\ pid2_Mode' = "AUTOMATIC"
    /\ sinceTimer' = IF el > SecondMs THEN 0 ELSE el
    /\ pid1_Input' = pidLoopInput(r.s1, steinhart1)
    /\ pid2_Input' = pidLoopInput(r.s2, steinhart2)
    /\ pid1_Output' = Compute("AUTOMATIC", pid1_Output, d1)
    /\ pid2_Output' = Compute("AUTOMATIC", pid2_Output, d2)
    /\ pwm1' = pid1_Output'
    /\ pwm2' = pid2_Output'
    /\ runningState' = st
    /\ runningSecondCounter' = sec
    /\ initTempSnapshot' = snap
    /\ evalState' = 0

\* lines 1073-1078: a run was started in this tick
RunStarting == running /\ ~runningBuffer

\* faulty variant of StartSecondCounter: the count of the last run is kept
StartSecondCounterKept(old) == old

\* line 1074: runningSecondCounter = 0 when a run starts (old: its value
\* from the run before)
StartSecondCounter(old) == 0

\* line 1050: the button levels the next poll can see (a bounded operator
\* has a number of presses left)
ButtonLevels ==
    IF env.maxPress = 0 \/ presses < env.maxPress THEN BOOLEAN ELSE {FALSE}

PressesAfter(sw) == IF sw /\ env.maxPress # 0 THEN presses + 1 ELSE presses

\* updateDisplay, lines 1072-1107, and lines 1050-1066 of the next iteration
LoopRest ==
    /\ pc = "rest"
    /\ env.maxTicks = 0 \/ ticks < env.maxTicks
    /\ ticks' = IF env.maxTicks = 0 THEN 0 ELSE ticks + 1
    /\ selectIndexMax' = updateDisplay(menuIndex, selectIndexMax,
                                       thermistor1Fail, thermistor2Fail)
    /\ \E dt \in env.ticks, r \in readThermistor(env) :
         LET el == AddMs(sinceTimer, dt) IN
         IF ~running
         THEN IdleTick(el, r)
         ELSE \E r0 \in (IF RunStarting THEN readThermistor(env) ELSE {r}),
                 d1 \in DutyVals, d2 \in DutyVals :
                LET st   == IF RunStarting THEN 1 ELSE runningState
                    sec  == IF RunStarting
                            THEN StartSecondCounter(runningSecondCounter)
                            ELSE runningSecondCounter
                    snap == IF RunStarting
                            THEN RDiv(RInt(r0.s1 + r0.s2), RInt(2))
                            ELSE initTempSnapshot
                IN  IF runningMode = 1
                    THEN reflowRunning(el, r, st, sec, snap, d1, d2)
                    ELSE constTempRunning(el, r, st, sec, snap, d1, d2)
    /\ runningBuffer' = running
    /\ encSW' \in ButtonLevels
    /\ presses' = PressesAfter(encSW')
    /\ pc' = IF selectFlag THEN "calc" ELSE "cursor"
    /\ UNCHANGED <<menuCounter, selectCounter, menuIndex, selectFlag,
                   startConfirm, swCase, preArm, running, runningMode,
                   paramVars, rotations, env>>

(***************************************************************************)
(* Specifications                                                          *)
(***************************************************************************)
Next ==
    \/ isrEnc
    \/ CalcRead
    \/ CalcCommit
    \/ CursorNoPress
    \/ CursorMainMenu
    \/ CursorConfirmNo
    \/ CursorConfirmYes
    \/ CursorBackTest
    \/ CursorConfigSelect
    \/ CursorToggleSelect
    \/ CursorSave
    \/ CursorReflowStop
    \/ LoopRest

\* a short profile (1 s ramp, soak to 2 s, reflow ramp to 3 s, 1 s hold)
ShortReflow == <<30, 1, 40, 2, 50, 3, 1>>

\* a profile whose t3 + hold does not fit 8 bits
WideReflow == <<30, 1, 40, 2, 50, 200, 100>>

\* a profile that cools between its segments
FallingReflow == <<50, 2, 40, 5, 30, 7, 2>>

\* channel 1 can read a broken lead (-30 C) or room temperature, channel 2
\* reads room temperature; uninitialised fail counters hold 0; the operator
\* is free, but turns the knob only to navigate
\* (the saved constants convert exactly; a write behind parametersPID
\* lands on an object of no later use)
FaultyEnv ==
    [temps1 |-> {-30, 25}, temps2 |-> {25}, uninit |-> {0}, ticks |-> TickMs,
     maxRot |-> 0, editDirs |-> {}, maxTicks |-> 0, maxPress |-> 0,
     duties |-> {0, PwmMax}, truncs |-> {0}, strays |-> {}]

Init == InitFrom({FaultyEnv}, {StoreImage(ShortReflow, DefaultPID)})

Spec == Init /\ [][Next]_vars

\* healthy sensors; the uninitialised fail counters hold 0 or 3; the
\* operator edits parameters; the first iterations of loop(); a write
\* behind parametersPID can land on parametersReflow
EditEnv ==
    [temps1 |-> {25}, temps2 |-> {25}, uninit |-> {0, 3}, ticks |-> TickMs,
     maxRot |-> MaxRotations, editDirs |-> {1, -1}, maxTicks |-> MaxTicks,
     maxPress |-> 0, duties |-> {0, PwmMax}, truncs |-> {0},
     strays |-> OutOfBoundsBytes]

InitEdit == InitFrom({EditEnv}, {StoreImage(ShortReflow, DefaultPID)})

SpecEdit == InitEdit /\ [][Next]_vars

\* healthy sensors at 25 or 30 C on channel 1 and 25 C on channel 2; the
\* operator presses the button a few times and then lets the run complete
\* (conversion and stray writes as in FaultyEnv)
ProfileEnv ==
    [temps1 |-> {25, 30}, temps2 |-> {25}, uninit |-> {0}, ticks |-> TickMs,
     maxRot |-> 0, editDirs |-> {}, maxTicks |-> 0, maxPress |-> MaxPresses,
     duties |-> {PwmMax}, truncs |-> {0}, strays |-> {}]

ProfileSet == {DefaultReflow, ShortReflow, WideReflow, FallingReflow}

InitProfile ==
    InitFrom({ProfileEnv}, {StoreImage(p, DefaultPID) : p \in ProfileSet})

SpecProfile == InitProfile /\ [][Next]_vars

\* an EEPROM that was never written: every cell reads 0xFF
ErasedStore == [a \in 1..19 |-> 255]

\* tuning constants whose first word is the largest a 16-bit int holds
LargePID == <<32767, 2, 345, 330, 2, 345>>

\* the short profile with the ramp time t1 edited down to 0
ZeroRampReflow == <<30, 0, 40, 2, 50, 3, 1>>

\* healthy sensors; the operator edits parameters and saves them; the
\* conversion of a tuning constant to hundredths can fall one short; the
\* store is erased or holds a configuration saved earlier, with values at
\* the edge of what an edit can reach
StoreEnv ==
    [temps1 |-> {25}, temps2 |-> {25}, uninit |-> {0}, ticks |-> TickMs,
     maxRot |-> MaxRotations, editDirs |-> {1}, maxTicks |-> MaxTicks,
     maxPress |-> 0, duties |-> {PwmMax}, truncs |-> {0, 1}, strays |-> {}]

InitStore ==
    InitFrom({StoreEnv}, {ErasedStore, StoreImage(ZeroRampReflow, LargePID)})

SpecStore == InitStore /\ [][Next]_vars

(***************************************************************************)
(* Claims.  A LoopRest step is the end of a control tick: in such a step   *)
(* the primed variables describe the state the tick leaves.                *)
(***************************************************************************)
AnyFault == thermistor1Fail \/ thermistor2Fail

\* the step is the LoopRest step that ends a control tick
TickEnds == pc = "rest" /\ pc' # "rest"

\* C1: a control tick that ends with a thermistor fault flag set, in any
\* mode and any reflow phase, ends with duty cycle 0 written to both
\* actuators.
C1_FaultForcesOutputsOff ==
    [][(TickEnds /\ AnyFault') => (pwm1' = 0 /\ pwm2' = 0)]_vars

\* C2: a fault detected during a run latches: in every later tick of the
\* same run (the run was active in the previous tick, whose acquisition set
\* a flag) elapsedSeconds and the phase do not advance and neither PID loop
\* is put to AUTOMATIC.
C2_FaultLatched ==
    [][(TickEnds /\ running /\ runningBuffer /\ AnyFault)
        => /\ runningSecondCounter' = runningSecondCounter
           /\ runningState' = runningState
           /\ pid1_Mode' # "AUTOMATIC"
           /\ pid2_Mode' # "AUTOMATIC"]_vars

\* C3: at the end of every control tick a run is active only if neither
\* fault flag is set.
C3_NoRunWithFault ==
    [][TickEnds => (running' => ~thermistor1Fail' /\ ~thermistor2Fail')]_vars

\* C4: every control tick that ends with no run active leaves the setpoint
\* at 0, both PID loops in MANUAL and both actuators at duty 0, whatever
\* edits are pending or were committed in the tick.
C4_IdleForcesOff ==
    [][(TickEnds /\ ~running')
        => /\ pid_Setpoint' = RInt(0)
           /\ pid1_Mode' = "MANUAL" /\ pid2_Mode' = "MANUAL"
           /\ pid1_Output' = 0 /\ pid2_Output' = 0
           /\ pwm1' = 0 /\ pwm2' = 0]_vars

\* C4 witness: an idle tick has ended while an edit of a tuning constant or
\* profile field is pending with a non-zero delta, the outputs forced off
C4_IdleEditPending ==
    /\ ~running /\ ~runningBuffer /\ ticks > 1
    /\ pc = "calc" /\ selectFlag /\ selectCounter # 0 /\ menuIndex \in {3, 4}
    /\ pid_Setpoint = RInt(0) /\ pid1_Mode = "MANUAL" /\ pwm1 = 0 /\ pwm2 = 0

\* C5: running becomes true only by the confirm-yes of the armed start
\* dialog; that dialog is armed only by a button press on a start entry of
\* the main menu, which ends that tick's menu handling with running still
\* false and the cursor on NO (so the button is seen down in two distinct
\* ticks, with a rotation to YES between them); and a tick ending without an
\* active run leaves both actuators at 0.
C5_TwoStepStart ==
    [][/\ (~running /\ running')
          => (pc = "cursor2" /\ swCase = 1 /\ encSW /\ menuIndex = 1
              /\ startConfirm /\ menuCounter = 2 /\ preArm # <<>>)
       /\ (preArm = <<>> /\ preArm' # <<>>)
          => (pc = "cursor" /\ pc' = "rest" /\ encSW /\ menuIndex = 0
              /\ menuCounter \in {1, 2} /\ ~running /\ ~running'
              /\ menuIndex' = 1 /\ startConfirm' /\ menuCounter' = 1)
       /\ (TickEnds /\ ~running) => (pwm1' = 0 /\ pwm2' = 0)]_vars

\* C5 witness: a run has just been started by the confirm-yes
C5_RunConfirmed ==
    /\ pc = "rest" /\ running /\ ~runningBuffer /\ encSW
    /\ menuIndex \in {98, 99} /\ ~startConfirm /\ preArm = <<>>

\* the step is the NO selection of the armed start dialog
DeclineStep ==
    /\ pc = "cursor" /\ pc' = "cursor2"
    /\ menuIndex = 1 /\ encSW /\ startConfirm /\ menuCounter = 1

\* C6 (as stated): the confirm-no of the armed start dialog leaves running
\* false, the main menu shown, and run mode, phase, elapsedSeconds,
\* snapshot, setpoint and both outputs as they were before the start
\* selection.
C6_ConfirmNoRestoresAll ==
    [][DeclineStep => (~running' /\ menuIndex' = 0 /\ <<RunSessionNow'>> = preArm)]_vars

\* C6 (amended): the confirm-no of the armed start dialog leaves running
\* false, the main menu shown, and phase, elapsedSeconds and both outputs
\* (0) as they were before the start selection; setpoint and snapshot have
\* their idle value 0 (their value before the selection unless it was made
\* in the first tick after boot, with the boot values 50 and 25 still in
\* place); run mode is not restored: the start selection wrote the mode of
\* the chosen entry and nothing changes it while the dialog is armed.
C6_ConfirmNoKeepsSession ==
    [][/\ DeclineStep
          => /\ ~running' /\ menuIndex' = 0 /\ ~startConfirm'
             /\ runningState' = preArm[1].phase
             /\ runningSecondCounter' = preArm[1].sec
             /\ pwm1' = preArm[1].out1 /\ pwm2' = preArm[1].out2
             /\ pwm1' = 0 /\ pwm2' = 0
             /\ pid_Setpoint' = RInt(0) /\ initTempSnapshot' = RInt(0)
             /\ (preArm[1].sp = RInt(0) \/ preArm[1].sp = RInt(BootSetpoint))
             /\ (preArm[1].snap = RInt(0) \/ preArm[1].snap = RInt(25))
             /\ (preArm[1].sp = RInt(0) <=> preArm[1].snap = RInt(0))
             /\ runningMode' = runningMode
       /\ (preArm = <<>> /\ preArm' # <<>>)
          => runningMode' = (IF menuCounter = 1 THEN 1 ELSE 0)
       /\ (preArm # <<>> /\ preArm' # <<>>)
          => runningMode' = runningMode]_vars

\* C6 witness: back in the main menu after a declined reflow start, with
\* the run mode left at reflow although no reflow run was ever made
C6_Declined ==
    /\ pc = "cursor2" /\ swCase = 1 /\ menuIndex = 0 /\ ~running
    /\ ~startConfirm /\ preArm # <<>> /\ runningMode = 1
    /\ runningState = 0

\* C7: during a reflow run the phase moves only forward and one phase at a
\* time (RAMP, SOAK, REFLOW_RAMP, REFLOW_HOLD, COOLING), a run begins in
\* RAMP, and COOLING is kept on every later tick of the run; nothing but
\* the running routine of a reflow run and the start of a run (which sets
\* RAMP) changes the phase.
C7_ForwardOnly ==
    [][/\ (TickEnds /\ running /\ runningMode = 1 /\ ~RunStarting)
          => /\ runningState \in 1..5
             /\ runningState' \in {runningState, runningState + 1}
             /\ runningState' <= 5
             /\ (runningState = 5 => runningState' = 5)
       /\ (TickEnds /\ running /\ runningMode = 1 /\ RunStarting)
          => (evalState' = 1 /\ runningState' \in {1, 2})
       /\ (TickEnds /\ running /\ runningMode # 1)
          => runningState' = IF RunStarting THEN 1 ELSE runningState
       /\ (~TickEnds \/ ~running) => runningState' = runningState]_vars

\* C7 witness: a reflow run evaluated in COOLING after passing all phases
C7_CoolingReached ==
    /\ running /\ runningMode = 1 /\ runningState = 5 /\ evalState = 5
    /\ runningSecondCounter = parametersReflow[6] + parametersReflow[7]

\* the configured boundary of a non-terminal phase, as the claim names it
C8_Boundary(st) ==
    CASE st = 1 -> parametersReflow[2]
      [] st = 2 -> parametersReflow[4]
      [] st = 3 -> parametersReflow[6]
      [] st = 4 -> parametersReflow[6] + parametersReflow[7]

\* C8: a tick of a reflow run that evaluates a non-terminal phase leaves it
\* (for the next phase) exactly when elapsedSeconds has reached the phase's
\* boundary: rampDuration, soakDuration, reflowDuration,
\* reflowDuration + holdDuration (the full sum).
C8_AdvanceAtBoundary ==
    [][(TickEnds /\ running /\ runningMode = 1 /\ evalState' \in 1..4)
        => /\ runningState' = IF runningSecondCounter' >= C8_Boundary(evalState')
                              THEN evalState' + 1 ELSE evalState'
           /\ evalState' = IF RunStarting THEN 1 ELSE runningState]_vars

\* C8 witness: REFLOW_HOLD left at second 300 = 200 + 100, beyond 8 bits
C8_WideHoldLeft ==
    /\ running /\ runningMode = 1 /\ parametersReflow = WideReflow
    /\ evalState = 4 /\ runningState = 5 /\ runningSecondCounter = 300

\* the value the claim gives for the default profile and snapshot 25
C9_Expected(st, t) ==
    CASE st = 1 -> Rat(25 * 100 + (115 - 25) * t, 100)
      [] st = 2 -> Rat(115 * 55 + (145 - 115) * (t - 100), 55)
      [] st = 3 -> Rat(145 * 25 + (185 - 145) * (t - 155), 25)
      [] st = 4 -> RInt(185)
      [] st = 5 -> RInt(0)

\* C9: for the default profile and snapshot 25 the setpoint of a reflow
\* tick is the linear interpolation of its segment; it is 25 at second 0,
\* 115 at 100, 145 at 155, 185 at 180 and from 180 to below 215, and 0 in
\* COOLING (which is the phase whenever elapsedSeconds is 216 or more; the
\* run itself stops counting at 215, where REFLOW_HOLD is left).
C9_DefaultProfileSetpoints ==
    [][(TickEnds /\ running /\ runningMode = 1
        /\ parametersReflow = DefaultReflow /\ initTempSnapshot' = RInt(25))
        => LET t == runningSecondCounter' IN
           /\ evalState' \in 1..5
           /\ pid_Setpoint' = C9_Expected(evalState', t)
           /\ (t = 0 => pid_Setpoint' = RInt(25))
           /\ (t = 100 => pid_Setpoint' = RInt(115))
           /\ (t = 155 => pid_Setpoint' = RInt(145))
           /\ (t = 180 => pid_Setpoint' = RInt(185))
           /\ (t >= 180 /\ t < 215 => pid_Setpoint' = RInt(185))
           /\ (t >= 216 => pid_Setpoint' = RInt(0) /\ evalState' = 5)
           /\ \A t2 \in 216..MaxSecond :
                 /\ ReflowNextState(4, parametersReflow, t2) = 5
                 /\ ReflowSetpoint(5, parametersReflow, initTempSnapshot',
                                   t2, pid_Setpoint) = RInt(0)
           /\ (evalState' = 5 => pid_Setpoint' = RInt(0) /\ t = 215)]_vars

\* C9 witness: the end of the ramp of the default profile, setpoint 115
C9_RampEnd ==
    /\ running /\ runningMode = 1 /\ parametersReflow = DefaultReflow
    /\ initTempSnapshot = RInt(25) /\ evalState = 1
    /\ runningSecondCounter = 100 /\ pid_Setpoint = RInt(115)

OrderedProfile(p) == 0 < p[2] /\ p[2] < p[4] /\ p[4] < p[6]

C11_CoolingForcesOff ==
    [][(TickEnds /\ running /\ runningMode = 1 /\ evalState' = 5)
        => /\ pid_Setpoint' = RInt(0)
           /\ pid1_Mode' = "MANUAL" /\ pid2_Mode' = "MANUAL"
           /\ pid1_Output' = 0 /\ pid2_Output' = 0
           /\ pwm1' = 0 /\ pwm2' = 0]_vars

\* C11 witness: a second COOLING tick in a row (the loops were MANUAL when
\* the running routine switched them to AUTOMATIC), plate 1 at 30 C
C11_CoolingTick ==
    /\ running /\ runningBuffer /\ runningMode = 1 /\ evalState = 5
    /\ runningState = 5 /\ steinhart1 = 30 /\ pc = "rest"
    /\ pid1_Mode = "MANUAL" /\ pwm1 = 0 /\ pwm2 = 0

\* C12: from boot on, for each zone, whenever the zone's PID loop is in
\* MANUAL the duty cycle last written to the zone's actuator is 0 (modes
\* and actuators are written only by the last step of a tick, so this is
\* the state at the end of every tick).
C12_ManualMeansOff ==
    /\ pid1_Mode = "MANUAL" => pwm1 = 0
    /\ pid2_Mode = "MANUAL" => pwm2 = 0

\* C12 witness: a run that drove both heaters has been stopped and the
\* idle tick has put the loops back to MANUAL
C12_StoppedAfterHeating ==
    /\ ~running /\ ~runningBuffer /\ runningState >= 1 /\ pc = "cursor"
    /\ pid1_Mode = "MANUAL" /\ pid2_Mode = "MANUAL" /\ pwm1 = 0 /\ pwm2 = 0

\* C13: every tick of a constant-temperature run ends with the setpoint
\* equal to the configured constant-temperature value, whatever the second
\* counter and the phase variable hold; that value changes only by the
\* commit of an edit on the running screen, which comes before the running
\* routine of the same tick.
C13_ConstSetpointIsConfigured ==
    [][/\ (TickEnds /\ running /\ runningMode = 0)
          => (pid_Setpoint' = RInt(constTempSP) /\ constTempSP' = constTempSP)
       /\ (pc = "commit" /\ pc' # "commit" /\ menuIndex = 98)
          => (constTempSP' = wrkInt /\ pc' = "cursor")
       /\ (constTempSP' # constTempSP)
          => (pc = "commit" /\ menuIndex = 98)]_vars

\* C13 witness: a constant-temperature run whose setpoint was edited from
\* 35 to 36 during the run, the tick of the commit just ended
C13_EditedWhileRunning ==
    /\ running /\ runningBuffer /\ runningMode = 0 /\ menuIndex = 98
    /\ constTempSP = 36 /\ pid_Setpoint = RInt(36) /\ selectCounter = 0
    /\ ~selectFlag /\ pid1_Mode = "AUTOMATIC"

\* C14: elapsedSeconds is the number of whole seconds since the run
\* started, whatever the idle refresh timer held at the start: the tick in
\* which a reflow run starts (less than a second after its start) ends with
\* elapsedSeconds 0.
C14_NoSecondInFirstTick ==
    [][(TickEnds /\ running /\ runningMode = 1 /\ RunStarting)
        => runningSecondCounter' = 0]_vars

\* C15: at the end of every tick the gains the two PID objects compute
\* with are the tuning constants currently held in parametersPID (after
\* the boot-time load and after any committed tuning edit).
C15_GainsFollowStore ==
    [][TickEnds => hotPlatePIDTunings = parametersPID']_vars

\* the step is the save of case 5 of updateCursorPosition
SaveStep == pc = "cursor" /\ menuIndex = 5 /\ pc' = "rest"

\* C16: a save followed by the boot-time load gives back the profile field
\* by field and every non-negative tuning constant to within 0.01; the 7
\* profile bytes and the 6 tuning words use mutually disjoint addresses.
C16_RoundTrip ==
    [][SaveStep =>
        /\ readUInt8TArrayFromEEPROM(eeprom') = parametersReflow
        /\ \A i \in 1..6 :
              parametersPID[i] >= 0 =>
                Abs(readIntArrayFromEEPROM(eeprom')[i] - parametersPID[i]) <= 1
        /\ \A i \in 1..7, j \in 1..6 :
              ReflowAddr(i) \notin {PidAddr(j), PidAddr(j) + 1}
        /\ \A i \in 1..6, j \in 1..6 :
              i # j => {PidAddr(i), PidAddr(i) + 1} \cap
                       {PidAddr(j), PidAddr(j) + 1} = {}]_vars

\* C17: after setup() on a store that was never written, the profile and the
\* tuning constants are the built-in defaults.
C17_ErasedStoreGivesDefaults ==
    (eeprom = ErasedStore /\ ticks = 0)
        => (parametersReflow = DefaultReflow /\ parametersPID = DefaultPID)

StoredParameters == <<parametersReflow, parametersPID, constTempSP>>

\* C18: a rotation in edit mode leaves the stored parameters alone; a stored
\* parameter changes only in the commit of a tick that saw the button down,
\* only the selected parameter changes, and it takes the working value
\* computed in that tick.
C18_OnlySelectedParameterChanges ==
    [][(StoredParameters' # StoredParameters) =>
        /\ pc = "commit" /\ encSW /\ selectFlag
        /\ \/ /\ menuIndex = 3 /\ menuCounter \in 1..7
              /\ parametersReflow' =
                    [parametersReflow EXCEPT ![menuCounter] = wrkInt]
              /\ UNCHANGED <<parametersPID, constTempSP>>
           \/ /\ menuIndex = 4 /\ menuCounter \in 1..6
              /\ parametersPID' =
                    [parametersPID EXCEPT ![menuCounter] = wrkDouble]
              /\ UNCHANGED <<parametersReflow, constTempSP>>
           \/ /\ menuIndex = 98
              /\ constTempSP' = wrkInt
              /\ UNCHANGED <<parametersReflow, parametersPID>>]_vars

\* the step is the "if (encSW)" block of calcParameters
CommitStep == pc = "commit" /\ pc' = "cursor"

\* C19: the rotation counter is read and cleared without an interrupt in
\* between, so no rotation is lost: the delta a commit clears is the delta
\* it has applied to the parameter.
C19_ClearedDeltaWasApplied ==
    [][CommitStep =>
        /\ (menuIndex = 3 /\ menuCounter \in 1..7)
              => parametersReflow'[menuCounter] =
                   U8(parametersReflow[menuCounter] + selectCounter)
        /\ (menuIndex = 4 /\ menuCounter \in 1..6)
              => parametersPID'[menuCounter] =
                   (IF parametersPID[menuCounter] + selectCounter < 0 THEN 0
                    ELSE parametersPID[menuCounter] + selectCounter)
        /\ (menuIndex = 98)
              => constTempSP' = U8(constTempSP + selectCounter)]_vars

\* the step ends a tick that called readThermistor() once: a running tick
\* after the first, or an idle tick whose 10 s timer expired
AcquisitionStep ==
    TickEnds /\ ~RunStarting /\ (running \/ sinceTimer' = 0)

\* C20: the fault flag of a channel is set iff the reading is below -20 C or
\* has matched the preceding reading on 3 consecutive acquisitions, the
\* match count persisting.  Hence a flag set with a reading in range means
\* the reading matched the preceding one, and a flag that was set by the
\* match count stays set when the next reading matches again.
C20_StuckFlagPersists ==
    [][AcquisitionStep =>
        /\ (thermistor1Fail' /\ steinhart1' >= FaultTempC)
              => steinhart1' = steinhart1
        /\ (thermistor2Fail' /\ steinhart2' >= FaultTempC)
              => steinhart2' = steinhart2
        /\ (thermistor1Fail /\ steinhart1 >= FaultTempC
                /\ steinhart1' = steinhart1) => thermistor1Fail'
        /\ (thermistor2Fail /\ steinhart2 >= FaultTempC
                /\ steinhart2' = steinhart2) => thermistor2Fail']_vars

StartSnapshots ==
    { RDiv(RInt(t1 + t2), RInt(2)) : t1 \in env.temps1, t2 \in env.temps2 }

\* C22: the tick in which a run starts (running set, runningBuffer not yet)
\* sets phase RAMP, second counter 0 and the snapshot to the average of the
\* two readings before it computes a setpoint, whatever the last run left;
\* no later tick of the run does so again.
C22_RunInitialisedOnce ==
    [][TickEnds =>
        /\ RunStarting =>
              /\ initTempSnapshot' \in StartSnapshots
              /\ runningSecondCounter' = (IF runningMode = 1 /\ sinceTimer' = 0
                                          THEN 1 ELSE 0)
              /\ runningMode = 1 =>
                    /\ evalState' = 1
                    /\ pid_Setpoint' =
                          ReflowSetpoint(1, parametersReflow, initTempSnapshot',
                                         runningSecondCounter', pid_Setpoint)
              /\ runningMode = 0 => runningState' = 1
        /\ (running /\ ~RunStarting) =>
              /\ initTempSnapshot' = initTempSnapshot
              /\ runningSecondCounter' >= runningSecondCounter
              /\ runningState' >= runningState]_vars

\* a run is started on the session a completed run has left: its first
\* tick is about to run
C22_RestartAfterCompletedRun ==
    /\ running /\ ~runningBuffer /\ pc = "rest" /\ runningMode = 1
    /\ runningState = 5 /\ runningSecondCounter >= 4 /\ menuIndex = 99

\* the step is the YES test of case 1 made after the NO branch of the stop
\* dialog has put the menu back on the running screen
YesTestAfterNo ==
    /\ pc = "cursor2" /\ swCase = 1 /\ pc' = "rest"
    /\ menuIndex \in {98, 99} /\ running

\* C23: in the stop dialog one button press takes exactly one of the NO and
\* YES branches under every interleaving of encoder interrupts: once NO has
\* returned to the running screen, the same press does not stop the run.
C23_OneBranchPerPress ==
    [][YesTestAfterNo => (running' /\ menuIndex' = menuIndex)]_vars

\* the menu shows a running screen or the stop dialog
OnRunScreen == menuIndex \in {98, 99} \/ (menuIndex = 1 /\ ~startConfirm)

\* C24: a run is active exactly when the menu is on a running screen or on
\* the stop dialog; hence no step taken while a run is active changes the
\* reflow profile, the tuning constants or the store.
C24_RunOnlyOnRunScreens ==
    /\ [](running <=> OnRunScreen)
    /\ [][running => UNCHANGED <<parametersReflow, parametersPID, eeprom>>]_vars

\* a running tick has ended with the stop dialog on display
C24_RunningBehindStopDialog ==
    /\ running /\ runningBuffer /\ pc = "cursor" /\ menuIndex = 1
    /\ ~startConfirm /\ evalState >= 1 /\ pid1_Mode = "AUTOMATIC"

\* C25: the menu identifier is always one of the screens that
\* updateCursorPosition and updateDisplay handle.
C25_MenuIsDefinedScreen == menuIndex \in {0, 1, 2, 3, 4, 5, 98, 99}

\* C26: whenever calcParameters is about to read or write a parameter, the
\* index menuCounter - 1 lies within the array of the screen: 0..6 on the
\* reflow profile screen, 0..5 on the PID screen.
C26_IndexInBounds ==
    pc \in {"calc", "commit"} =>
        /\ menuIndex = 3 => menuCounter \in 1..7
        /\ menuIndex = 4 => menuCounter \in 1..6

\* C27: while no parameter is selected for editing the pending rotation
\* delta is 0, so that every edit starts from the stored value.
C27_NoDeltaOutsideEdit == ~selectFlag => selectCounter = 0

\* C28: no setpoint expression of a reflow run divides by zero: t1 is not 0
\* when the RAMP case runs, t2 differs from t1 when the SOAK case runs, t3
\* differs from t2 when the REFLOW RAMP case runs.
C28_NoDivisionByZero ==
    [][(TickEnds /\ running /\ runningMode = 1) =>
        /\ evalState' = 1 => parametersReflow[2] # 0
        /\ evalState' = 2 => parametersReflow[4] # parametersReflow[2]
        /\ evalState' = 3 => parametersReflow[6] # parametersReflow[4]]_vars

\* C29: the value a commit stores in a reflow field or in the constant
\* temperature setpoint is the old value plus the rotation delta, without
\* wrap-around: the working value computed for a commit is that sum.
C29_NoWrapAround ==
    [][(pc = "calc" /\ pc' = "commit") =>
        /\ (menuIndex = 3 /\ menuCounter \in 1..7)
              => wrkInt' = parametersReflow[menuCounter] + selectCounter
        /\ (menuIndex = 98) => wrkInt' = constTempSP + selectCounter]_vars

\* C30: a tick of a reflow run in COOLING leaves the second counter alone;
\* the counter advances by at most 1 per tick; for a profile with
\* t1 < t2 < t3 it never exceeds t3 + hold during the run.
C30_CounterStopsInCooling ==
    [][(TickEnds /\ running /\ runningMode = 1) =>
        /\ (~RunStarting /\ runningState = 5)
              => runningSecondCounter' = runningSecondCounter
        /\ ~RunStarting
              => runningSecondCounter' - runningSecondCounter \in {0, 1}
        /\ RunStarting => runningSecondCounter' \in {0, 1}
        /\ (parametersReflow[2] < parametersReflow[4]
                /\ parametersReflow[4] < parametersReflow[6])
              => runningSecondCounter' <=
                   parametersReflow[6] + parametersReflow[7]]_vars

\* the 1 s timer has run out in COOLING and the counter stands at t3 + hold
C30_CoolingHoldsCounter ==
    /\ running /\ runningBuffer /\ runningMode = 1 /\ pc = "cursor"
    /\ parametersReflow = WideReflow /\ runningState = 5 /\ evalState = 5
    /\ runningSecondCounter = 300 /\ sinceTimer > SecondMs
====
